---- MODULE Spec2Model ----
(***************************************************************************)
(* TexTweet: the iMessage -> X daemon.  The model covers the poll loop of  *)
(* main (src/src/index.ts), the MessageProcessor (same file, from line     *)
(* 193), the MessageCache ledger (src/src/message-cache.ts) and the        *)
(* IMessageMonitor fetch (src/src/imessage-monitor.ts).                    *)
(*                                                                         *)
(* Strings are sequences of characters, a JavaScript Set is a sequence     *)
(* without duplicates in insertion order, and the cache file is either     *)
(* absent, unparsable, or the two arrays that save() wrote.                *)
(***************************************************************************)
EXTENDS Integers, Sequences, FiniteSets, TLC

\* ------------------------------------------------------------------ bounds
MaxMessages == 2
MaxRestarts == 1
MaxTextLen == 3
MaxLengthBound == 3
MaxAttachments == 6
MaxBurst == 11
MaxLedgerCalls == 3
MaxPathDepth == 1

\* ------------------------------------------------------- program constants
DEFAULT_MAX_TWEET_LENGTH == 280
MAX_IMAGES == 4
QUERY_LIMIT == 10
MAX_CONSECUTIVE_ERRORS == 5

VARIABLES
  db,                \* the message table rows of the target contact, in ROWID order
  disk,              \* .processed-messages.json: "missing", "corrupt" or [processed, failed]
  maxLength,         \* config.tweet.maxLength
  imageCall,         \* a processImage call: its argument, the files that exist,
                     \* whether heic-convert succeeds, and what the call gave
  pc,                \* position of main
  processedIds,      \* MessageCache.processedIds
  failedIds,         \* MessageCache.failedIds
  newMessages,       \* the batch getNewMessages returned
  idx,               \* position of the for-of loop in newMessages
  processedMessage,  \* const processedMessage of the loop body
  mi,                \* position of the media loop in mediaPaths
  mediaIds,          \* const mediaIds of the loop body
  tweetPayload,      \* the payload of the postTweet call of the current record
  markKind,          \* which ledger call the record is about to get
  consecutiveErrors, \* let consecutiveErrors
  isShuttingDown,    \* let isShuttingDown
  exitCode,          \* the exit status of the last process, -1 while running
  preflight,         \* what the checks before the loop answered
  \* ---- history (never read by the program) ----
  resolvedAtFetch,   \* ids the last fetch saw and the ledger answered isProcessed for
  upResults,         \* per media turn of the current record so far: did it give an id
  calls,             \* adapter and ledger calls made for the current record
  watched,           \* the ROWID whose history is kept: any one, chosen at the start
  postCalls,         \* postTweet invocations for the watched record, all sessions together
  okPosts,           \* postTweet calls for the watched record that returned a tweet id
  postThrew,         \* a postTweet call for the watched record threw
  windowCrash,       \* a crash fell between the watched record's post success and the
                     \* end of its own ledger write
  restarts,          \* process starts after the first
  crashed,           \* some process crashed
  saveFailed,        \* some writeFileSync failed
  fetchErrors,       \* poll cycles in a row, up to now, whose source query threw
  unsaved            \* the watched record's ledger write failed in this session

vars == <<db, disk, maxLength, imageCall, pc, processedIds, failedIds, newMessages, idx,
          processedMessage, mi, mediaIds, tweetPayload, markKind,
          consecutiveErrors, isShuttingDown, exitCode, resolvedAtFetch, upResults, calls,
          watched, postCalls, okPosts, postThrew, windowCrash, restarts,
          crashed, saveFailed, preflight, fetchErrors, unsaved>>

\* ----------------------------------------------------------------- strings
WS == " "
Chars == {WS, "a", "b"}

\* the literal appended by processMessage: the three characters
\* U+00E2 U+20AC U+00A6 as they stand in the source file
TRUNCATION_MARKER == <<"U+00E2", "U+20AC", "U+00A6">>

Min(a, b) == IF a < b THEN a ELSE b
Max(a, b) == IF a > b THEN a ELSE b

\* String.prototype.substring(start, end): arguments below 0 count as 0,
\* above the length as the length, and are swapped when start > end
substring(s, start, end) ==
  LET a  == Min(Max(start, 0), Len(s))
      b  == Min(Max(end, 0), Len(s))
      lo == Min(a, b)
      hi == Max(a, b)
  IN  SubSeq(s, lo + 1, hi)

RECURSIVE trimStart(_)
trimStart(s) == IF s # <<>> /\ Head(s) = WS THEN trimStart(Tail(s)) ELSE s

RECURSIVE trimEnd(_)
trimEnd(s) ==
  IF s # <<>> /\ s[Len(s)] = WS THEN trimEnd(SubSeq(s, 1, Len(s) - 1)) ELSE s

\* String.prototype.trim
trim(s) == trimEnd(trimStart(s))

\* String.prototype.toLowerCase on the MIME types of the model
toLowerCase(s) ==
  CASE s = "IMAGE/PNG" -> "image/png"
    [] s = "Image/Heic" -> "image/heic"
    [] OTHER -> s

\* Number.prototype.toString for a positive integer: its decimal digits
RECURSIVE toString(_)
toString(n) == IF n < 10 THEN <<n>> ELSE toString(n \div 10) \o <<n % 10>>

\* parseInt(s, 10) on a digit string
RECURSIVE parseInt(_)
parseInt(s) ==
  IF Len(s) = 0 THEN 0
  ELSE 10 * parseInt(SubSeq(s, 1, Len(s) - 1)) + s[Len(s)]

\* -------------------------------------------------------- MessageProcessor
\* homedir(), as path tokens
HOME == <<"/", "Users", "/", "me">>
NoPath == <<>>

supportedImageTypes ==
  {"image/jpeg", "image/jpg", "image/png", "image/gif", "image/webp",
   "image/heic", "image/heif"}

\* a path is a sequence of tokens: "/", "~", names, and extensions (a dot and
\* what follows it); path.startsWith('~'), path.replace('~', homedir())
expandTilde(path) ==
  IF path # <<>> /\ Head(path) = "~" THEN HOME \o Tail(path) ELSE path

\* attachment.filename || attachment.transfer_name
attachmentPath(a) == IF a.filename # NoPath THEN a.filename ELSE a.transfer_name

isImageAttachment(a) ==
  /\ a.mime_type # ""
  /\ toLowerCase(a.mime_type) \in supportedImageTypes
  /\ attachmentPath(a) # NoPath

RECURSIVE extractMediaPaths(_)
extractMediaPaths(attachments) ==
  IF attachments = <<>> THEN <<>>
  ELSE LET a == Head(attachments)
       IN (IF isImageAttachment(a) THEN <<expandTilde(attachmentPath(a))>> ELSE <<>>)
          \o extractMediaPaths(Tail(attachments))

truncateText(text, limit) == substring(text, 0, limit - 1) \o TRUNCATION_MARKER

\* mutant: the cap is applied one entry late
capMediaOffByOne(paths) ==
  IF Len(paths) > MAX_IMAGES + 1 THEN SubSeq(paths, 1, MAX_IMAGES + 1) ELSE paths

capMedia(paths) == IF Len(paths) > MAX_IMAGES THEN SubSeq(paths, 1, MAX_IMAGES) ELSE paths

processMessage(message, limit) ==
  LET originalText == trim(message.text)
      cut          == Len(originalText) > limit
  IN  [ text         |-> IF cut THEN truncateText(originalText, limit) ELSE originalText,
        mediaPaths   |-> capMedia(extractMediaPaths(message.attachments)),
        originalText |-> originalText,
        wasTruncated |-> cut ]

\* mutant: only a missing text field, never an empty one, is rejected
validateAlways(message) == TRUE

validateMessage(message) == ~(message.text = <<>> /\ Len(message.mediaPaths) = 0)

NoProcessed == [text |-> <<>>, mediaPaths |-> <<>>, originalText |-> <<>>, wasTruncated |-> FALSE]


\* ------------------------------------------------------------ TwitterClient
\* mutant: the text is sent as it is
postTweetPayloadRaw(text, ids) == [text |-> text, media_ids |-> ids]

\* the payload postTweet sends: text || ' ', media only when ids were given
postTweetPayload(text, ids) ==
  [ text      |-> IF text = <<>> THEN <<WS>> ELSE text,
    media_ids |-> ids ]

NoPayload == [text |-> <<>>, media_ids |-> <<>>]

\* ----------------------------------------------------------- ImageConverter
\* the extension tokens of the model
ExtTokens == {".jpg", ".JPG", ".png", ".mov", ".heic", ".HEIC", ".heif", ".Heif"}

\* path.basename(path): what follows the last separator
basename(path) ==
  LET seps == {i \in DOMAIN path : path[i] = "/"}
      from == IF seps = {} THEN 1 ELSE (CHOOSE i \in seps : \A k \in seps : k <= i) + 1
  IN  SubSeq(path, from, Len(path))

\* path.extname(path): from the last dot of the base name on, nothing when
\* the base name starts with that dot
extname(path) ==
  LET b == basename(path)
  IN  IF Len(b) >= 2 /\ b[Len(b)] \in ExtTokens THEN b[Len(b)] ELSE ""

\* String.prototype.toLowerCase on the extensions of the model
lowerExt(e) ==
  CASE e = ".HEIC" -> ".heic"
    [] e = ".Heif" -> ".heif"
    [] e = ".JPG" -> ".jpg"
    [] OTHER -> e

needsConversion(path) == lowerExt(extname(path)) \in {".heic", ".heif"}

\* join(__dirname, '..', '.temp-images')
TEMP_DIR == <<"/", "app", "/", ".temp-images">>

\* path.join(dir, name)
join(dir, name) == dir \o <<"/">> \o name

\* path.basename(path, ext): the base name without a trailing ext
basenameWithout(path, ext) ==
  LET b == basename(path)
  IN  IF ext # "" /\ Len(b) >= 2 /\ b[Len(b)] = ext THEN SubSeq(b, 1, Len(b) - 1) ELSE b

\* ImageConverter.expandPath
expandPath(filePath) ==
  IF filePath # <<>> /\ Head(filePath) = "~" THEN HOME \o Tail(filePath) ELSE filePath

\* what a processImage call gives: kind "ok" and the path returned, or the
\* error thrown; attempted: readFileSync / heic-convert were called; written:
\* the files writeFileSync wrote
NoResult == [kind |-> "none", error |-> "", path |-> <<>>, attempted |-> FALSE, written |-> {}]

\* no processImage call is under study
NoImage == <<>>

\* convertToJpeg: read, convert (converts: neither throws), write the result
\* as <tempDir>/<base name without extension>.jpg; every throw becomes
\* "HEIC conversion failed"
convertToJpeg(heicPath, converts) ==
  IF converts
  THEN LET fileName   == basenameWithout(heicPath, extname(heicPath))
           outputPath == join(TEMP_DIR, fileName \o <<".jpg">>)
       IN  [kind |-> "ok", error |-> "", path |-> outputPath, attempted |-> TRUE,
            written |-> {outputPath}]
  ELSE [kind |-> "threw", error |-> "HEIC conversion failed", path |-> <<>>,
        attempted |-> TRUE, written |-> {}]

\* mutant: the conversion is tried before the file is looked for
processImageConvertsFirst(imagePath, files, converts) ==
  IF needsConversion(imagePath)
  THEN convertToJpeg(imagePath, converts /\ expandPath(imagePath) \in files)
  ELSE IF expandPath(imagePath) \notin files
  THEN [kind |-> "threw", error |-> "Image file not found", path |-> <<>>,
        attempted |-> FALSE, written |-> {}]
  ELSE [kind |-> "ok", error |-> "", path |-> expandPath(imagePath), attempted |-> FALSE,
        written |-> {}]

\* processImage over the files that exist: expandPath, existsSync, then
\* convertToJpeg for a HEIC / HEIF name, the expanded path for any other
processImage(imagePath, files, converts) ==
  LET expandedPath == expandPath(imagePath)
  IN  IF expandedPath \notin files
      THEN [kind |-> "threw", error |-> "Image file not found", path |-> <<>>,
            attempted |-> FALSE, written |-> {}]
      ELSE IF needsConversion(imagePath) THEN convertToJpeg(imagePath, converts)
      ELSE [kind |-> "ok", error |-> "", path |-> expandedPath, attempted |-> FALSE,
            written |-> {}]

\* what one turn of the media loop can end in: processImage throws before any
\* upload (file missing, or conversion failed), uploadMedia throws, or an id
processImageOutcomes(path) ==
  {"notfound", "uploadfail", "ok"}
    \cup (IF needsConversion(path) THEN {"convertfail"} ELSE {})

\* ------------------------------------------------------------- MessageCache
Range(s) == {s[i] : i \in DOMAIN s}

setHas(s, x) == x \in Range(s)
\* mutant: a list, not a set
setAddAgain(s, x) == Append(s, x)
setAdd(s, x) == IF setHas(s, x) THEN s ELSE Append(s, x)
setDelete(s, x) == SelectSeq(s, LAMBDA y : y # x)

\* new Set(array): first occurrences, in order
RECURSIVE newSet(_)
newSet(arr) ==
  IF arr = <<>> THEN <<>>
  ELSE LET init == newSet(SubSeq(arr, 1, Len(arr) - 1))
       IN  setAdd(init, arr[Len(arr)])

\* the JSON value of a field of the cache file: no such field (or null, false,
\* 0), a list of number tokens, a string of characters, a non-zero number, an
\* object.  A number token is its decimal digits, a character its code unit.
JsonAbsent == [kind |-> "absent", items |-> <<>>]
JsonNumber == [kind |-> "number", items |-> <<>>]
JsonObject == [kind |-> "object", items |-> <<>>]
JsonList(tokens) == [kind |-> "list", items |-> tokens]
JsonString(chars) == [kind |-> "string", items |-> chars]

MissingFile == [state |-> "missing", processed |-> JsonAbsent, failed |-> JsonAbsent]
CorruptFile == [state |-> "corrupt", processed |-> JsonAbsent, failed |-> JsonAbsent]

\* JSON.stringify(Array.from(set)): the ids as number tokens, in insertion order
stringifyIds(set) == JsonList([i \in DOMAIN set |-> toString(set[i])])

\* mutant: the failed ids are not written
fileContentProcessedOnly(p, f) ==
  [state |-> "ok", processed |-> stringifyIds(p), failed |-> JsonList(<<>>)]

\* mutant: only the id added last is written
fileContentLastOnly(p, f) ==
  [state |-> "ok",
   processed |-> stringifyIds(IF p = <<>> THEN <<>> ELSE <<p[Len(p)]>>),
   failed |-> stringifyIds(IF f = <<>> THEN <<>> ELSE <<f[Len(f)]>>)]

\* JSON.stringify({processed: Array.from(..), failed: Array.from(..), lastUpdated})
fileContent(p, f) ==
  [state |-> "ok", processed |-> stringifyIds(p), failed |-> stringifyIds(f)]

\* data.processed || []
orEmptyList(v) ==
  IF v.kind = "absent" \/ (v.kind = "string" /\ v.items = <<>>) THEN JsonList(<<>>) ELSE v

\* new Set(v) throws a TypeError unless v is iterable
isIterable(v) == v.kind \in {"list", "string"}

\* the element a character of a string becomes in a Set: not a number, so it
\* is equal to no id (ids are positive, this is negative)
charElement(c) == 0 - c[1]

\* what iterating v yields: the numbers of a list, the characters of a string
elements(v) ==
  [i \in DOMAIN v.items |->
     IF v.kind = "list" THEN parseInt(v.items[i]) ELSE charElement(v.items[i])]

\* load(): no file, a file JSON.parse rejects, or a field new Set() rejects
\* gives two empty sets
load(file) ==
  IF file.state # "ok" THEN [processed |-> <<>>, failed |-> <<>>]
  ELSE LET p == orEmptyList(file.processed)
           f == orEmptyList(file.failed)
       IN  IF isIterable(p) /\ isIterable(f)
           THEN [processed |-> newSet(elements(p)), failed |-> newSet(elements(f))]
           ELSE [processed |-> <<>>, failed |-> <<>>]

\* what save() gives its caller when writeFileSync threw or did not: the catch
\* logs the error, and markProcessed / markFailed return nothing either way
saveOutcome(writeThrew) == "returned"

\* mutant: the set is left as it was
markProcessedForgets(p, f, messageId) == [processed |-> p, failed |-> f]

\* mutant: the ledger keeps the last id only
markProcessedEvicts(p, f, messageId) ==
  [processed |-> <<parseInt(messageId)>>, failed |-> <<>>]

markProcessed(p, f, messageId) ==
  LET id == parseInt(messageId)
  IN  [processed |-> setAdd(p, id), failed |-> setDelete(f, id)]

\* mutant: the failure is logged but not recorded
markFailedForgets(p, f, messageId) == [processed |-> p, failed |-> f]

\* mutant: the failed id is kept out of the processed set
markFailedOnly(p, f, messageId) ==
  [processed |-> p, failed |-> setAdd(f, parseInt(messageId))]

markFailed(p, f, messageId) ==
  LET id == parseInt(messageId)
  IN  [processed |-> setAdd(p, id), failed |-> setAdd(f, id)]

isProcessedIn(p, f, messageId) ==
  LET id == parseInt(messageId) IN setHas(p, id) \/ setHas(f, id)

isProcessed(messageId) == isProcessedIn(processedIds, failedIds, messageId)

isFailed(messageId) == setHas(failedIds, parseInt(messageId))

\* the two counts shutdown() prints as "Total messages posted" and "Total
\* messages failed": the sizes of the two sets
getProcessedCount == Len(processedIds)

getFailedCount == Len(failedIds)

\* ---------------------------------------------------------- IMessageMonitor
\* ORDER BY m.date DESC: the i-th row of the answer is the one with i - 1
\* rows of a later date (no two rows of the model have the same date)
orderByDateDesc(rows) ==
  [i \in 1..Len(rows) |->
     rows[CHOOSE k \in DOMAIN rows :
            Cardinality({j \in DOMAIN rows : rows[j].date > rows[k].date}) = i - 1]]

\* ... LIMIT 10
queryMessages(rows) == SubSeq(orderByDateDesc(rows), 1, Min(QUERY_LIMIT, Len(rows)))

toMessageData(row) ==
  [id |-> toString(row.ROWID), text |-> row.text, date |-> row.date,
   attachments |-> row.attachments]

\* the filter loop of getNewMessages over the query's rows
RECURSIVE filterNew(_, _, _)
filterNew(rows, p, f) ==
  IF rows = <<>> THEN <<>>
  ELSE (IF ~isProcessedIn(p, f, toString(Head(rows).ROWID))
        THEN <<toMessageData(Head(rows))>> ELSE <<>>)
       \o filterNew(Tail(rows), p, f)

RECURSIVE allMessages(_)
allMessages(rows) ==
  IF rows = <<>> THEN <<>> ELSE <<toMessageData(Head(rows))>> \o allMessages(Tail(rows))

\* mutant: only the failed ids are filtered out
getNewMessagesFailedOnly(rows, p, f) == filterNew(queryMessages(rows), <<>>, f)

\* mutant: the isProcessed filter is left out
getNewMessagesUnfiltered(rows, p, f) == allMessages(queryMessages(rows))

getNewMessages(rows, p, f) == filterNew(queryMessages(rows), p, f)


\* ------------------------------------------------------------------- inputs
Ids == 1..MaxMessages

\* the records whose history is followed: the first two sent
Watched == {id \in Ids : id <= 2}

Att(name, mime) ==
  [filename |-> <<"~", "/", "Library", "/">> \o name, mime_type |-> mime,
   transfer_name |-> name]

TextMsg  == [text |-> <<"a", "b">>, attachments |-> <<>>]
BlankMsg == [text |-> <<WS>>, attachments |-> <<Att(<<"clip", ".mov">>, "video/quicktime")>>]
PhotoMsg == [text |-> <<>>, attachments |-> <<Att(<<"1", ".jpg">>, "image/jpeg")>>]
TrioMsg  == [text |-> <<>>,
             attachments |-> <<Att(<<"1", ".jpg">>, "image/jpeg"), Att(<<"2", ".jpg">>, "image/jpeg"),
                               Att(<<"3", ".jpg">>, "image/jpeg")>>]
AlbumMsg == [text |-> <<"a">>,
             attachments |-> <<Att(<<"1", ".jpg">>, "image/jpeg"), Att(<<"clip", ".mov">>, "video/quicktime"),
                               Att(<<"2", ".jpg">>, "image/jpeg"), Att(<<"3", ".jpg">>, "IMAGE/PNG"),
                               Att(<<"4", ".HEIC">>, "Image/Heic"), Att(<<"5", ".jpg">>, "image/jpeg"),
                               Att(<<"6", ".jpg">>, "image/jpeg")>>]

\* the messages the contact is sent in the runs with crashes and restarts
Catalogue == {TextMsg, BlankMsg, PhotoMsg}

\* the messages the contact is sent in the runs about attachments
MediaCatalogue == {TextMsg, TrioMsg, AlbumMsg}

NoCalls == [posts |-> 0, marks |-> 0]

\* ------------------------------------------------------------- main: state
Running == pc \notin {"start", "exited"}
HasRecord == pc \in {"upload", "post", "mark", "saving", "marked"}

rawMessage == newMessages[idx]
rawId == parseInt(rawMessage.id)

\* the volatile state of a process that is not running, the counter apart
VolatileButCounter ==
  /\ processedIds' = <<>>
  /\ failedIds' = <<>>
  /\ newMessages' = <<>>
  /\ idx' = 0
  /\ processedMessage' = NoProcessed
  /\ mi' = 0
  /\ mediaIds' = <<>>
  /\ tweetPayload' = NoPayload
  /\ markKind' = "none"
  /\ resolvedAtFetch' = {}
  /\ upResults' = <<>>
  /\ calls' = NoCalls
  /\ fetchErrors' = 0
  /\ unsaved' = FALSE

\* the volatile state of a process that is not running
Volatile == VolatileButCounter /\ consecutiveErrors' = 0

history == <<watched, postCalls, okPosts, postThrew, windowCrash, restarts, crashed, saveFailed>>
recordVars == <<processedMessage, mi, mediaIds, tweetPayload, markKind, upResults, calls>>
sessionVars == <<preflight, fetchErrors, unsaved>>

Init ==
  /\ db = <<>>
  /\ disk = MissingFile
  /\ maxLength = DEFAULT_MAX_TWEET_LENGTH
  /\ imageCall = NoImage
  /\ pc = "start"
  /\ processedIds = <<>>
  /\ failedIds = <<>>
  /\ newMessages = <<>>
  /\ idx = 0
  /\ processedMessage = NoProcessed
  /\ mi = 0
  /\ mediaIds = <<>>
  /\ tweetPayload = NoPayload
  /\ markKind = "none"
  /\ consecutiveErrors = 0
  /\ isShuttingDown = FALSE
  /\ exitCode = -1
  /\ resolvedAtFetch = {}
  /\ upResults = <<>>
  /\ calls = NoCalls
  /\ watched \in Watched
  /\ postCalls = 0
  /\ okPosts = 0
  /\ postThrew = FALSE
  /\ windowCrash = FALSE
  /\ restarts = 0
  /\ crashed = FALSE
  /\ saveFailed = FALSE
  /\ preflight = "none"
  /\ fetchErrors = 0
  /\ unsaved = FALSE

\* ----------------------------------------------------------- main: actions
\* a message to the contact is sent from this Mac
Send(catalogue) ==
  /\ Len(db) < MaxMessages
  /\ \E m \in catalogue :
       db' = Append(db, [ROWID |-> Len(db) + 1, date |-> Len(db) + 1,
                         text |-> m.text, attachments |-> m.attachments])
  /\ UNCHANGED <<disk, maxLength, imageCall, pc, processedIds, failedIds, newMessages, idx,
                 recordVars, consecutiveErrors, isShuttingDown, exitCode,
                 resolvedAtFetch, history, sessionVars>>

Arrive == Send(Catalogue)

ArriveMedia == Send(MediaCatalogue)

\* the two checks before the loop: verifyCredentials, and only when it
\* answered true, initialize
preflightAnswer(isAuthenticated, isInitialized) ==
  IF ~isAuthenticated THEN "unauthenticated"
  ELSE IF ~isInitialized THEN "uninitialized"
  ELSE "ok"

\* mutant: the answer of initialize is not looked at
entersLoopUninitialized(answer) == answer # "unauthenticated"

\* main goes on to the loop only when neither check ended it with exit(1)
entersLoop(answer) == answer = "ok"

\* main up to the loop: new IMessageMonitor (the cache loads), verifyCredentials,
\* initialize; either check answering false ends the process with exit(1)
Start ==
  /\ pc = "start"
  /\ \E isAuthenticated, isInitialized \in BOOLEAN :
       LET answer == preflightAnswer(isAuthenticated, isInitialized)
       IN  /\ preflight' = answer
           /\ IF entersLoop(answer)
              THEN /\ pc' = "fetch"
                   /\ exitCode' = -1
                   /\ processedIds' = load(disk).processed
                   /\ failedIds' = load(disk).failed
              ELSE /\ pc' = "exited"
                   /\ exitCode' = 1
                   /\ processedIds' = <<>>
                   /\ failedIds' = <<>>
  /\ consecutiveErrors' = 0
  /\ UNCHANGED <<db, disk, maxLength, imageCall, newMessages, idx, recordVars,
                 isShuttingDown, resolvedAtFetch, history, fetchErrors, unsaved>>

\* mutant: one list for the whole batch
mediaIdsCarriedOver(previous) == previous

\* const mediaIds: string[] = [] in the loop body: every record starts with
\* a list of its own, whatever the record before it collected
newMediaIds(previous) == <<>>

\* the loop body from the top of the for-of body to its first pending call:
\* processMessage, validateMessage, then the first media turn or postTweet
EnterRecord(i) ==
  LET msg == newMessages'[i]
      pm  == processMessage(msg, maxLength)
  IN  /\ idx' = i
      /\ processedMessage' = pm
      /\ mediaIds' = newMediaIds(mediaIds)
      /\ upResults' = <<>>
      /\ IF ~validateMessage(pm)
         THEN /\ pc' = "mark"
              /\ markKind' = "skip"
              /\ mi' = 0
              /\ calls' = NoCalls
              /\ tweetPayload' = NoPayload
              /\ postCalls' = postCalls
         ELSE IF Len(pm.mediaPaths) > 0
         THEN /\ pc' = "upload"
              /\ markKind' = "none"
              /\ mi' = 1
              /\ calls' = NoCalls
              /\ tweetPayload' = NoPayload
              /\ postCalls' = postCalls
         ELSE /\ pc' = "post"
              /\ markKind' = "none"
              /\ mi' = 0
              /\ calls' = [NoCalls EXCEPT !.posts = 1]
              /\ tweetPayload' = postTweetPayload(pm.text, <<>>)
              /\ postCalls' = postCalls + (IF parseInt(msg.id) = watched THEN 1 ELSE 0)

\* the for-of loop is over: await sleep(config.polling.interval)
EnterSleep ==
  /\ pc' = "sleep"
  /\ idx' = 0
  /\ processedMessage' = NoProcessed
  /\ mi' = 0
  /\ mediaIds' = <<>>
  /\ tweetPayload' = NoPayload
  /\ markKind' = "none"
  /\ upResults' = <<>>
  /\ calls' = NoCalls
  /\ postCalls' = postCalls

\* mutant: a record's failure ends the batch
AdvanceUnlessFailed ==
  IF idx < Len(newMessages) /\ markKind # "failed"
  THEN newMessages' = newMessages /\ EnterRecord(idx + 1)
  ELSE newMessages' = newMessages /\ EnterSleep

\* after a record's ledger call: the next record of the batch, or the sleep
Advance ==
  IF idx < Len(newMessages)
  THEN newMessages' = newMessages /\ EnterRecord(idx + 1)
  ELSE newMessages' = newMessages /\ EnterSleep

\* await imessageMonitor.getNewMessages() when the query answers (queryOk) or
\* throws, which the method catches and answers with []
FetchWith(queryOk) ==
  /\ pc = "fetch"
  /\ newMessages' = IF queryOk THEN getNewMessages(db, processedIds, failedIds) ELSE <<>>
  /\ resolvedAtFetch' =
       IF queryOk
       THEN {r.ROWID : r \in {x \in Range(queryMessages(db)) :
                                isProcessed(toString(x.ROWID))}}
       ELSE {}
  /\ fetchErrors' = IF queryOk THEN 0 ELSE Min(fetchErrors + 1, MAX_CONSECUTIVE_ERRORS)
  /\ IF newMessages' # <<>> THEN EnterRecord(1) ELSE EnterSleep
  /\ UNCHANGED <<db, disk, maxLength, imageCall, processedIds, failedIds, consecutiveErrors,
                 isShuttingDown, exitCode, watched, okPosts, postThrew, windowCrash,
                 restarts, crashed, saveFailed, preflight, unsaved>>

Fetch == \E queryOk \in BOOLEAN : FetchWith(queryOk)

\* the fetch of a cycle in which the source answers
FetchAnswered == FetchWith(TRUE)


\* mediaIds after one turn of the media loop: the id is pushed only when
\* processImage and uploadMedia both returned
\* mutant: a failed turn empties the list
collectMediaIdResetOnFail(ids, outcome, id) ==
  IF outcome = "ok" THEN Append(ids, id) ELSE <<>>

collectMediaId(ids, outcome, id) == IF outcome = "ok" THEN Append(ids, id) ELSE ids

\* mutant: a record none of whose uploads succeeded is skipped even with text
skipsTweetWithoutMedia(ids, text) == Len(ids) = 0

\* mediaIds.length === 0 && !processedMessage.text, asked after the media loop
skipsTweet(ids, text) == Len(ids) = 0 /\ text = <<>>

\* mutant: the post does not wait for the rest of the uploads
hasNextMediaNever(i, paths) == FALSE

\* for (const mediaPath of processedMessage.mediaPaths): is there a turn
\* after the i-th
hasNextMedia(i, paths) == i < Len(paths)

\* one turn of the media loop: processImage then uploadMedia for mediaPaths[mi],
\* a throw of either caught by the inner try; after the last turn the record is
\* skipped (nothing uploaded and no text) or postTweet is called
MediaTurn ==
  /\ pc = "upload"
  /\ \E outcome \in processImageOutcomes(processedMessage.mediaPaths[mi]) :
       LET ids == collectMediaId(mediaIds, outcome, <<rawId, mi>>)
       IN  /\ upResults' = Append(upResults, outcome = "ok")
           /\ mediaIds' = ids
           /\ IF hasNextMedia(mi, processedMessage.mediaPaths)
              THEN /\ mi' = mi + 1
                   /\ UNCHANGED <<pc, markKind, tweetPayload, calls, postCalls>>
              ELSE IF skipsTweet(ids, processedMessage.text)
              THEN /\ pc' = "mark"
                   /\ markKind' = "skip"
                   /\ UNCHANGED <<mi, tweetPayload, calls, postCalls>>
              ELSE /\ pc' = "post"
                   /\ calls' = [calls EXCEPT !.posts = @ + 1]
                   /\ tweetPayload' = postTweetPayload(processedMessage.text, ids)
                   /\ postCalls' = postCalls + (IF rawId = watched THEN 1 ELSE 0)
                   /\ UNCHANGED <<mi, markKind>>
  /\ UNCHANGED <<db, disk, maxLength, imageCall, processedIds, failedIds, newMessages, idx,
                 processedMessage, consecutiveErrors, isShuttingDown, exitCode,
                 resolvedAtFetch, watched, okPosts, postThrew, windowCrash, restarts,
                 crashed, saveFailed, sessionVars>>

\* mutant: a record with a failed upload is marked failed though its post
\* returned
outcomeOfPostStrict(posted, uploads) ==
  IF posted /\ \A k \in DOMAIN uploads : uploads[k] THEN "posted" ELSE "failed"

\* the ledger call that follows postTweet: markAsProcessed when it returned,
\* markAsFailed from the record's catch when it threw
outcomeOfPost(posted, uploads) == IF posted THEN "posted" ELSE "failed"

\* await twitterClient.postTweet(...) settles: a tweet id, or a throw that the
\* record's catch turns into markAsFailed
PostReturn ==
  /\ pc = "post"
  /\ \E posted \in BOOLEAN :
       IF posted
       THEN /\ markKind' = outcomeOfPost(TRUE, upResults)
            /\ okPosts' = okPosts + (IF rawId = watched THEN 1 ELSE 0)
            /\ postThrew' = postThrew
       ELSE /\ markKind' = outcomeOfPost(FALSE, upResults)
            /\ okPosts' = okPosts
            /\ postThrew' = (postThrew \/ rawId = watched)
  /\ pc' = "mark"
  /\ tweetPayload' = NoPayload
  /\ UNCHANGED <<db, disk, maxLength, imageCall, processedIds, failedIds, newMessages, idx,
                 processedMessage, mi, mediaIds, consecutiveErrors, isShuttingDown, exitCode,
                 resolvedAtFetch, upResults, calls, watched, postCalls, windowCrash,
                 restarts, crashed, saveFailed, sessionVars>>

\* the in-memory part of markAsProcessed / markAsFailed
markInMemory(kind, p, f, messageId) ==
  IF kind = "failed" THEN markFailed(p, f, messageId) ELSE markProcessed(p, f, messageId)

\* markAsProcessed / markAsFailed up to writeFileSync opening the cache file:
\* the sets change, then the open truncates the file, or fails and save()
\* swallows the error
Mark ==
  /\ pc = "mark"
  /\ LET sets == markInMemory(markKind, processedIds, failedIds, rawMessage.id)
     IN  /\ processedIds' = sets.processed
         /\ failedIds' = sets.failed
  /\ calls' = [calls EXCEPT !.marks = @ + 1]
  /\ \E opened \in BOOLEAN :
       IF opened
       THEN /\ disk' = CorruptFile
            /\ pc' = "saving"
            /\ saveFailed' = saveFailed
            /\ unsaved' = unsaved
       ELSE /\ disk' = disk
            /\ pc' = "marked"
            /\ saveFailed' = TRUE
            /\ unsaved' = (unsaved \/ rawId = watched)
  /\ UNCHANGED <<db, maxLength, imageCall, newMessages, idx, processedMessage, mi, mediaIds,
                 tweetPayload, markKind, consecutiveErrors, isShuttingDown,
                 exitCode, resolvedAtFetch, upResults, watched, postCalls, okPosts,
                 postThrew, windowCrash, restarts, crashed, preflight, fetchErrors>>

\* writeFileSync writes the JSON text, or fails part-way (save() swallows it)
SaveEnd ==
  /\ pc = "saving"
  /\ \E written \in BOOLEAN :
       IF written
       THEN /\ disk' = fileContent(processedIds, failedIds)
            /\ saveFailed' = saveFailed
            /\ unsaved' = unsaved
       ELSE /\ disk' = disk
            /\ saveFailed' = TRUE
            /\ unsaved' = (unsaved \/ rawId = watched)
  /\ pc' = "marked"
  /\ UNCHANGED <<db, maxLength, imageCall, processedIds, failedIds, newMessages, idx,
                 recordVars, consecutiveErrors, isShuttingDown, exitCode,
                 resolvedAtFetch, watched, postCalls, okPosts, postThrew,
                 windowCrash, restarts, crashed, preflight, fetchErrors>>

\* the ledger call has returned: consecutiveErrors = 0 after a post, then the
\* next record or the sleep
Continue ==
  /\ pc = "marked"
  /\ consecutiveErrors' = IF markKind = "posted" THEN 0 ELSE consecutiveErrors
  /\ Advance
  /\ UNCHANGED <<db, disk, maxLength, imageCall, processedIds, failedIds, isShuttingDown,
                 exitCode, resolvedAtFetch, watched, okPosts, postThrew, windowCrash,
                 restarts, crashed, saveFailed, sessionVars>>

\* what the pending sleep is called with, in polling intervals:
\* sleep(config.polling.interval) at the end of the try body,
\* sleep(config.polling.interval * 2) at the end of the catch
sleepIntervals(at) ==
  CASE at = "sleep" -> 1
    [] at = "backoff" -> 2
    [] OTHER -> 0

\* the sleep ends and the while condition holds
Wake ==
  /\ pc \in {"sleep", "backoff"}
  /\ pc' = "fetch"
  /\ UNCHANGED <<db, disk, maxLength, imageCall, processedIds, failedIds, newMessages, idx,
                 recordVars, consecutiveErrors, isShuttingDown, exitCode,
                 resolvedAtFetch, history, sessionVars>>

\* an error reaches the catch of the while body: the counter goes up, and at
\* MAX_CONSECUTIVE_ERRORS shutdown() is called, which ends the process with
\* exit(0); below it the loop sleeps twice the interval ("backoff") and polls
\* again.
\* getNewMessages and the ledger calls catch their own errors, so what gets
\* here is an error thrown by the await of getNewMessages outside its try.
OuterCatch ==
  /\ pc = "fetch"
  /\ consecutiveErrors' = consecutiveErrors + 1
  /\ IF consecutiveErrors' >= MAX_CONSECUTIVE_ERRORS
     THEN /\ isShuttingDown' = TRUE
          /\ exitCode' = 0
          /\ pc' = "exited"
          /\ VolatileButCounter
     ELSE /\ pc' = "backoff"
          /\ fetchErrors' = Min(fetchErrors + 1, MAX_CONSECUTIVE_ERRORS)
          /\ UNCHANGED <<isShuttingDown, exitCode, processedIds, failedIds,
                         newMessages, idx, recordVars, resolvedAtFetch, unsaved>>
  /\ UNCHANGED <<db, disk, maxLength, imageCall, history, preflight>>

\* SIGINT / SIGTERM while main waits for an upload, a post or the sleep:
\* shutdown() runs and calls process.exit(0)
Signal ==
  /\ pc \in {"upload", "post", "sleep", "backoff"}
  /\ ~isShuttingDown
  /\ isShuttingDown' = TRUE
  /\ exitCode' = 0
  /\ pc' = "exited"
  /\ Volatile
  /\ UNCHANGED <<db, disk, maxLength, imageCall, history, preflight>>

\* the process dies (kill -9, power loss) at any point of the loop
Crash ==
  /\ Running
  /\ pc' = "exited"
  /\ exitCode' = 137
  /\ isShuttingDown' = FALSE
  /\ crashed' = TRUE
  /\ windowCrash' = (\/ windowCrash
                     \/ (pc \in {"mark", "saving"} /\ markKind = "posted" /\ rawId = watched))
  /\ Volatile
  /\ UNCHANGED <<db, disk, maxLength, imageCall, watched, postCalls, okPosts, postThrew,
                 restarts, saveFailed, preflight>>

\* the daemon is started again
Restart ==
  /\ pc = "exited"
  /\ restarts < MaxRestarts
  /\ restarts' = restarts + 1
  /\ pc' = "start"
  /\ exitCode' = -1
  /\ isShuttingDown' = FALSE
  /\ preflight' = "none"
  /\ consecutiveErrors' = 0
  /\ UNCHANGED <<db, disk, maxLength, imageCall, processedIds, failedIds, newMessages, idx,
                 recordVars, resolvedAtFetch, watched, postCalls,
                 okPosts, postThrew, windowCrash, crashed, saveFailed, fetchErrors,
                 unsaved>>

\* the daemon over crashes and restarts, with a source that answers every query
Next ==
  \/ Arrive
  \/ Start
  \/ FetchAnswered
  \/ MediaTurn
  \/ PostReturn
  \/ Mark
  \/ SaveEnd
  \/ Continue
  \/ Wake
  \/ Signal
  \/ Crash
  \/ Restart

Spec == Init /\ [][Next]_vars

\* one session of the daemon, no signal and no crash, fed messages with attachments
NextMedia ==
  \/ ArriveMedia
  \/ Start
  \/ Fetch
  \/ MediaTurn
  \/ PostReturn
  \/ Mark
  \/ SaveEnd
  \/ Continue
  \/ Wake

SpecMedia == Init /\ [][NextMedia]_vars

\* one session of the daemon with a source whose queries may throw
NextSource ==
  \/ Arrive
  \/ Start
  \/ Fetch
  \/ MediaTurn
  \/ PostReturn
  \/ Mark
  \/ SaveEnd
  \/ Continue
  \/ Wake
  \/ Signal

SpecSource == Init /\ [][NextSource]_vars

\* one session of the daemon in which errors reach the catch of the while body
NextGuard ==
  \/ Arrive
  \/ Start
  \/ Fetch
  \/ MediaTurn
  \/ PostReturn
  \/ Mark
  \/ SaveEnd
  \/ Continue
  \/ Wake
  \/ Signal
  \/ OuterCatch

SpecGuard == Init /\ [][NextGuard]_vars


\* ------------------------------------------- a burst of messages at once
\* n messages to the contact, sent one after the other: a text, then videos
\* without text
BurstRows(n) ==
  [i \in 1..n |->
     LET m == IF i = 1 THEN TextMsg ELSE BlankMsg
     IN  [ROWID |-> i, date |-> i, text |-> m.text, attachments |-> m.attachments]]

\* the daemon starts when up to MaxBurst messages have been sent since the
\* ledger was last written (here: never)
InitBurst ==
  /\ \E n \in 0..MaxBurst : db = BurstRows(n)
  /\ disk = MissingFile
  /\ maxLength = DEFAULT_MAX_TWEET_LENGTH
  /\ imageCall = NoImage
  /\ pc = "start"
  /\ processedIds = <<>>
  /\ failedIds = <<>>
  /\ newMessages = <<>>
  /\ idx = 0
  /\ processedMessage = NoProcessed
  /\ mi = 0
  /\ mediaIds = <<>>
  /\ tweetPayload = NoPayload
  /\ markKind = "none"
  /\ consecutiveErrors = 0
  /\ isShuttingDown = FALSE
  /\ exitCode = -1
  /\ resolvedAtFetch = {}
  /\ upResults = <<>>
  /\ calls = NoCalls
  /\ watched = 1
  /\ postCalls = 0
  /\ okPosts = 0
  /\ postThrew = FALSE
  /\ windowCrash = FALSE
  /\ restarts = 0
  /\ crashed = FALSE
  /\ saveFailed = FALSE
  /\ preflight = "none"
  /\ fetchErrors = 0
  /\ unsaved = FALSE

\* one session of the daemon, no signal and no crash
NextBurst ==
  \/ Start
  \/ Fetch
  \/ PostReturn
  \/ Mark
  \/ SaveEnd
  \/ Continue
  \/ Wake

\* the loop keeps taking its steps, and the source does not fail for ever
SpecBurst ==
  InitBurst /\ [][NextBurst]_vars /\ WF_vars(NextBurst) /\ SF_vars(FetchAnswered)


\* ------------------------------------------ the cache file at construction
\* the values a field of a hand-edited or foreign cache file can hold
FieldValues ==
  {JsonAbsent, JsonNumber, JsonObject}
    \cup {JsonList(l) : l \in {<<>>, <<toString(1)>>, <<toString(2)>>,
                               <<toString(1), toString(2)>>, <<toString(2), toString(1)>>}}
    \cup {JsonString(c) : c \in {<<>>, << <<97>> >>, << <<97>>, <<98>> >>}}

CacheFiles ==
  {MissingFile, CorruptFile}
    \cup {[state |-> "ok", processed |-> p, failed |-> f] : p \in FieldValues, f \in FieldValues}

\* the daemon starts over any cache file
InitLoad ==
  /\ db = <<>>
  /\ disk \in CacheFiles
  /\ maxLength = DEFAULT_MAX_TWEET_LENGTH
  /\ imageCall = NoImage
  /\ pc = "start"
  /\ processedIds = <<>>
  /\ failedIds = <<>>
  /\ newMessages = <<>>
  /\ idx = 0
  /\ processedMessage = NoProcessed
  /\ mi = 0
  /\ mediaIds = <<>>
  /\ tweetPayload = NoPayload
  /\ markKind = "none"
  /\ consecutiveErrors = 0
  /\ isShuttingDown = FALSE
  /\ exitCode = -1
  /\ resolvedAtFetch = {}
  /\ upResults = <<>>
  /\ calls = NoCalls
  /\ watched = 1
  /\ postCalls = 0
  /\ okPosts = 0
  /\ postThrew = FALSE
  /\ windowCrash = FALSE
  /\ restarts = 0
  /\ crashed = FALSE
  /\ saveFailed = FALSE
  /\ preflight = "none"
  /\ fetchErrors = 0
  /\ unsaved = FALSE

\* construction of the ledger and the checks before the loop
NextLoad ==
  \/ Start

SpecLoad == InitLoad /\ [][NextLoad]_vars


\* -------------------------------------------- processMessage on its own
\* every text of at most MaxTextLen characters
RECURSIVE Texts(_)
Texts(n) ==
  IF n = 0 THEN {<<>>}
  ELSE LET shorter == Texts(n - 1)
       IN  shorter \cup {Append(t, c) : t \in {x \in shorter : Len(x) = n - 1}, c \in Chars}

\* the i-th attachment of an input: an image (the MIME type in another case and
\* the path only in transfer_name at every other place) or not an image (a
\* video, or an image row with no path at all)
InputAttachment(i, image) ==
  LET names == << <<"1", ".jpg">>, <<"2", ".jpg">>, <<"3", ".jpg">>, <<"4", ".HEIC">>,
                  <<"5", ".jpg">>, <<"6", ".jpg">>, <<"7", ".jpg">>, <<"8", ".jpg">> >>
      name  == names[((i - 1) % 8) + 1]
  IN  IF image
      THEN IF i % 2 = 1
           THEN [filename |-> <<"~", "/", "Library", "/">> \o name, mime_type |-> "image/jpeg",
                 transfer_name |-> name]
           ELSE [filename |-> NoPath, mime_type |-> "IMAGE/PNG", transfer_name |-> name]
      ELSE IF i % 2 = 1
           THEN [filename |-> <<"~", "/", "clip", ".mov">>, mime_type |-> "video/quicktime",
                 transfer_name |-> <<"clip", ".mov">>]
           ELSE [filename |-> NoPath, mime_type |-> "image/jpeg", transfer_name |-> NoPath]

InputAttachments ==
  UNION {{[i \in 1..n |-> InputAttachment(i, images[i])] : images \in [1..n -> BOOLEAN]}
           : n \in 0..MaxAttachments}

InitProcess ==
  /\ \E t \in Texts(MaxTextLen), atts \in InputAttachments :
       db = <<[ROWID |-> 1, date |-> 1, text |-> t, attachments |-> atts]>>
  /\ maxLength \in 0..MaxLengthBound
  /\ imageCall = NoImage
  /\ pc = "input"
  /\ disk = MissingFile
  /\ processedIds = <<>>
  /\ failedIds = <<>>
  /\ newMessages = <<>>
  /\ idx = 0
  /\ processedMessage = NoProcessed
  /\ mi = 0
  /\ mediaIds = <<>>
  /\ tweetPayload = NoPayload
  /\ markKind = "none"
  /\ consecutiveErrors = 0
  /\ isShuttingDown = FALSE
  /\ exitCode = -1
  /\ resolvedAtFetch = {}
  /\ upResults = <<>>
  /\ calls = NoCalls
  /\ watched = 1
  /\ postCalls = 0
  /\ okPosts = 0
  /\ postThrew = FALSE
  /\ windowCrash = FALSE
  /\ restarts = 0
  /\ crashed = FALSE
  /\ saveFailed = FALSE
  /\ preflight = "none"
  /\ fetchErrors = 0
  /\ unsaved = FALSE

\* messageProcessor.processMessage(rawMessage)
Normalize ==
  /\ pc = "input"
  /\ processedMessage' = processMessage(toMessageData(db[1]), maxLength)
  /\ pc' = "normalized"
  /\ UNCHANGED <<db, disk, maxLength, imageCall, processedIds, failedIds, newMessages, idx,
                 mi, mediaIds, tweetPayload, markKind, consecutiveErrors,
                 isShuttingDown, exitCode, resolvedAtFetch, upResults, calls, history,
                 sessionVars>>

\* messageProcessor.validateMessage(processedMessage)
Validate ==
  /\ pc = "normalized"
  /\ pc' = IF validateMessage(processedMessage) THEN "valid" ELSE "invalid"
  /\ UNCHANGED <<db, disk, maxLength, imageCall, processedIds, failedIds, newMessages, idx,
                 recordVars, consecutiveErrors, isShuttingDown, exitCode,
                 resolvedAtFetch, history, sessionVars>>

NextProcess ==
  \/ Normalize
  \/ Validate

SpecProcess == InitProcess /\ [][NextProcess]_vars


\* ------------------------------------------------ the ledger on its own
\* a MessageCache constructed over no cache file
InitLedger ==
  /\ db = <<>>
  /\ disk = MissingFile
  /\ maxLength = DEFAULT_MAX_TWEET_LENGTH
  /\ imageCall = NoImage
  /\ pc = "ledger"
  /\ processedIds = <<>>
  /\ failedIds = <<>>
  /\ newMessages = <<>>
  /\ idx = 0
  /\ processedMessage = NoProcessed
  /\ mi = 0
  /\ mediaIds = <<>>
  /\ tweetPayload = NoPayload
  /\ markKind = "none"
  /\ consecutiveErrors = 0
  /\ isShuttingDown = FALSE
  /\ exitCode = -1
  /\ resolvedAtFetch = {}
  /\ upResults = <<>>
  /\ calls = NoCalls
  /\ watched \in Ids
  /\ postCalls = 0
  /\ okPosts = 0
  /\ postThrew = FALSE
  /\ windowCrash = FALSE
  /\ restarts = 0
  /\ crashed = FALSE
  /\ saveFailed = FALSE
  /\ preflight = "none"
  /\ fetchErrors = 0
  /\ unsaved = FALSE

\* one call of markProcessed (kind "posted") or markFailed (kind "failed")
\* with any id, save() included: the file is written, or writeFileSync
\* throws before it touched the file and save() swallows it.  markFailed is
\* what the catch of a throwing post calls.
LedgerCall(kind) ==
  /\ pc = "ledger"
  /\ calls.marks < MaxLedgerCalls
  /\ \E id \in Ids :
       LET sets == markInMemory(kind, processedIds, failedIds, toString(id))
       IN  /\ newMessages' = <<toMessageData([ROWID |-> id, date |-> id, text |-> <<>>,
                                               attachments |-> <<>>])>>
           /\ idx' = 1
           /\ processedIds' = sets.processed
           /\ failedIds' = sets.failed
           /\ postThrew' = (postThrew \/ (kind = "failed" /\ id = watched))
           /\ \E written \in BOOLEAN :
                /\ disk' = IF written THEN fileContent(sets.processed, sets.failed) ELSE disk
                /\ saveFailed' = (saveFailed \/ ~written)
  /\ markKind' = kind
  /\ calls' = [calls EXCEPT !.marks = @ + 1]
  /\ UNCHANGED <<db, maxLength, imageCall, pc, processedMessage, mi, mediaIds, tweetPayload,
                 consecutiveErrors, isShuttingDown, exitCode, resolvedAtFetch,
                 upResults, watched, postCalls, okPosts, windowCrash, restarts,
                 crashed, sessionVars>>

CallMarkProcessed == LedgerCall("posted")

CallMarkFailed == LedgerCall("failed")

NextLedger ==
  \/ CallMarkProcessed
  \/ CallMarkFailed

SpecLedger == InitLedger /\ [][NextLedger]_vars


\* ------------------------------------------------ processImage on its own
\* the directories between a path's start and its file name: up to n of them
RECURSIVE Directories(_)
Directories(n) ==
  IF n = 0 THEN {<<>>} ELSE {<<>>} \cup {<<"d", "/">> \o d : d \in Directories(n - 1)}

\* file names: a stem, a stem and an extension, an extension alone (a dot file)
FileNames ==
  LET stems == {"IMG", "x"}
  IN  {<<st>> : st \in stems}
        \cup {<<st, e>> : st \in stems, e \in ExtTokens}
        \cup {<<".heic">>}

\* paths under the home marker, absolute and relative
ImagePaths ==
  {start \o dir \o name :
     start \in {<<"~", "/">>, <<"/", "tmp", "/">>, <<>>},
     dir \in Directories(MaxPathDepth),
     name \in FileNames}

\* a processImage call about to be made: any path, over a file system in
\* which nothing exists, the expanded path exists, or only the path as
\* written exists, with a conversion that works or not
InitImage ==
  /\ \E path \in ImagePaths, converts \in BOOLEAN :
       \E files \in {{}, {expandPath(path)}, {path}} :
         imageCall = [input |-> path, files |-> files, converts |-> converts,
                  result |-> NoResult]
  /\ db = <<>>
  /\ disk = MissingFile
  /\ maxLength = DEFAULT_MAX_TWEET_LENGTH
  /\ pc = "image"
  /\ processedIds = <<>>
  /\ failedIds = <<>>
  /\ newMessages = <<>>
  /\ idx = 0
  /\ processedMessage = NoProcessed
  /\ mi = 0
  /\ mediaIds = <<>>
  /\ tweetPayload = NoPayload
  /\ markKind = "none"
  /\ consecutiveErrors = 0
  /\ isShuttingDown = FALSE
  /\ exitCode = -1
  /\ resolvedAtFetch = {}
  /\ upResults = <<>>
  /\ calls = NoCalls
  /\ watched = 1
  /\ postCalls = 0
  /\ okPosts = 0
  /\ postThrew = FALSE
  /\ windowCrash = FALSE
  /\ restarts = 0
  /\ crashed = FALSE
  /\ saveFailed = FALSE
  /\ preflight = "none"
  /\ fetchErrors = 0
  /\ unsaved = FALSE

\* await imageConverter.processImage(mediaPath)
ProcessImage ==
  /\ pc = "image"
  /\ imageCall' = [imageCall EXCEPT
                     !.result = processImage(imageCall.input, imageCall.files,
                                             imageCall.converts)]
  /\ pc' = "processed"
  /\ UNCHANGED <<db, disk, maxLength, processedIds, failedIds, newMessages, idx,
                 recordVars, consecutiveErrors, isShuttingDown, exitCode,
                 resolvedAtFetch, history, sessionVars>>

NextImage ==
  \/ ProcessImage

SpecImage == InitImage /\ [][NextImage]_vars


\* ================================================================== claims
watchedId == toString(watched)
onDisk(id) == disk.state = "ok" /\ id \in Range(load(disk).processed)

\* the image attachments of a message, in source order, as expanded paths
imagePaths(attachments) ==
  LET img == SelectSeq(attachments, isImageAttachment)
  IN  [i \in 1..Len(img) |-> expandTilde(attachmentPath(img[i]))]

\* ----------------------------------------------------------------------
\* C1: no record the ledger answered isProcessed for when the cycle fetched
\* it is in the cycle's batch, and no uploadMedia or postTweet call of the
\* cycle is for such a record.
C1_ResolvedNotPublished ==
  /\ \A i \in DOMAIN newMessages : parseInt(newMessages[i].id) \notin resolvedAtFetch
  /\ pc \in {"upload", "post"} => rawId \notin resolvedAtFetch

\* a cycle re-fetched a resolved record and is posting another one
C1_Witness == resolvedAtFetch # {} /\ pc = "post"

\* ----------------------------------------------------------------------
\* C2 (as claimed): with no crash and no failed ledger write, over all cycles
\* and restarts together postTweet is invoked at most once per record.
C2_PostedAtMostOnce == (~crashed /\ ~saveFailed) => postCalls <= 1

\* ----------------------------------------------------------------------
\* C3 (as claimed): with crashes allowed (and no failed ledger write), a
\* record is posted a second time only if a crash fell between its own
\* successful post and the end of its own ledger write.
C3_RepostOnlyAfterOwnWindowCrash == (~saveFailed /\ okPosts >= 2) => windowCrash

\* ----------------------------------------------------------------------
\* C4: in runs without a crash or a failed ledger write, once postTweet threw
\* for a record: no media turn and no postTweet call is made for it again, it
\* is in the failed set whenever the loop is anywhere but at that record's own
\* ledger call, and the cache file holds it (so a restart reloads it)
\* whenever no write of the file is under way.
C4_FailedPostNeverRetried ==
  (postThrew /\ ~crashed /\ ~saveFailed) =>
    LET own == HasRecord /\ rawId = watched
    IN  /\ ~(own /\ pc \in {"upload", "post"})
        /\ (Running /\ ~(own /\ pc = "mark")) => (isProcessed(watchedId) /\ isFailed(watchedId))
        /\ (pc # "saving" /\ ~(own /\ pc = "mark")) =>
             (onDisk(watched) /\ watched \in Range(load(disk).failed))

\* after a failed post and a restart, a cycle re-fetched the record and skipped it
C4_Witness ==
  /\ postThrew /\ ~crashed /\ ~saveFailed
  /\ restarts >= 1
  /\ watched \in resolvedAtFetch
  /\ pc = "sleep"

\* ----------------------------------------------------------------------
\* C5: a record whose trimmed text is empty and which has no image attachment
\* fails validateMessage, gets no uploadMedia and no postTweet call, and gets
\* exactly one ledger call, markAsProcessed.
isEmptyRecord(m) == trim(m.text) = <<>> /\ imagePaths(m.attachments) = <<>>

C5_EmptyRecordSkipped ==
  /\ (HasRecord /\ isEmptyRecord(rawMessage)) =>
       /\ ~validateMessage(processedMessage)
       /\ pc \in {"mark", "saving", "marked"}
       /\ upResults = <<>>
       /\ calls.posts = 0
       /\ markKind = "skip"
       /\ calls.marks = (IF pc = "mark" THEN 0 ELSE 1)
  /\ (watched \in DOMAIN db /\ isEmptyRecord(db[watched])) => postCalls = 0

\* an empty record has had its ledger call
C5_Witness ==
  /\ HasRecord /\ isEmptyRecord(rawMessage)
  /\ pc = "marked" /\ calls.marks = 1 /\ isProcessed(rawMessage.id)

\* ----------------------------------------------------------------------
\* C6 (as claimed): for every text and every maxLength >= 1 the publish text
\* is at most maxLength long; a longer trimmed text is cut, ends with the
\* marker and sets wasTruncated; a text within the limit is returned as
\* trimmed with wasTruncated false.
endsWith(s, suffix) ==
  Len(s) >= Len(suffix) /\ SubSeq(s, Len(s) - Len(suffix) + 1, Len(s)) = suffix

C6_TruncatedToLimit ==
  (pc = "normalized" /\ maxLength >= 1) =>
    LET raw == trim(db[1].text)
    IN  /\ Len(processedMessage.text) <= maxLength
        /\ Len(raw) > maxLength =>
             (endsWith(processedMessage.text, TRUNCATION_MARKER) /\ processedMessage.wasTruncated)
        /\ Len(raw) <= maxLength =>
             (processedMessage.text = raw /\ ~processedMessage.wasTruncated)

\* ----------------------------------------------------------------------
\* C7 (as claimed): for maxLength >= 1, wasTruncated is true exactly when the
\* publish text is strictly shorter than the trimmed raw text.
C7_TruncatedIffShorter ==
  (pc = "normalized" /\ maxLength >= 1) =>
    (processedMessage.wasTruncated <=> Len(processedMessage.text) < Len(trim(db[1].text)))

\* ----------------------------------------------------------------------
\* C8: the media paths of a record are its first 4 image attachments in
\* source order (all of them when there are fewer), and every media turn and
\* every uploaded id of the record belongs to one of those paths.
C8_MediaCapped ==
  HasRecord =>
    LET images == imagePaths(rawMessage.attachments)
        kept   == Min(4, Len(images))
    IN  /\ processedMessage.mediaPaths = SubSeq(images, 1, kept)
        /\ Len(upResults) <= kept
        /\ pc = "upload" => mi \in 1..kept
        /\ \A k \in DOMAIN mediaIds : mediaIds[k][2] \in 1..kept
        /\ \A k \in DOMAIN tweetPayload.media_ids : tweetPayload.media_ids[k][2] \in 1..kept

\* a record with 6 image attachments has had its 4 media turns and is being posted
C8_Witness ==
  /\ HasRecord /\ Len(imagePaths(rawMessage.attachments)) = 6
  /\ pc = "post" /\ Len(upResults) = 4

\* ----------------------------------------------------------------------
\* C9: when postTweet is called every media path has had its turn, whatever
\* failed, and the call carries exactly the ids of the turns that succeeded,
\* in source order; once the loop is past a record, the ledger holds it.
okMediaIds ==
  LET all == [i \in 1..Len(upResults) |-> <<rawId, i>>]
  IN  SelectSeq(all, LAMBDA x : upResults[x[2]])

C9_PartialUploadTolerated ==
  /\ pc = "upload" => (Len(upResults) = mi - 1 /\ mediaIds = okMediaIds)
  /\ pc = "post" =>
       /\ Len(upResults) = Len(processedMessage.mediaPaths)
       /\ tweetPayload.media_ids = okMediaIds
  /\ pc = "marked" => isProcessed(rawMessage.id)
  /\ HasRecord => \A j \in 1..(idx - 1) : isProcessed(newMessages[j].id)

\* three attachments, the second upload failed, the post carries two ids
C9_Witness ==
  /\ pc = "post"
  /\ upResults = <<TRUE, FALSE, TRUE>>
  /\ tweetPayload.media_ids = <<<<rawId, 1>>, <<rawId, 3>>>>

\* ----------------------------------------------------------------------
\* C10 (as claimed): within one cycle the batch is processed oldest-first:
\* every record of the batch older than the one being processed has already
\* had its turn.
C10_OldestFirst ==
  HasRecord =>
    \A j \in DOMAIN newMessages : newMessages[j].date < rawMessage.date => j < idx

\* ----------------------------------------------------------------------
\* C11 (as claimed): once the source query has thrown in 5 poll cycles in a
\* row, the consecutive-failure counter has reached 5 and shutdown has been
\* initiated.
C11_FetchFailuresShutDown ==
  fetchErrors >= MAX_CONSECUTIVE_ERRORS =>
    (consecutiveErrors >= MAX_CONSECUTIVE_ERRORS /\ isShuttingDown)

C13_EveryRecordResolved ==
  <>(pc = "exited" \/ \A i \in DOMAIN db : isProcessed(toString(i)))

\* ----------------------------------------------------------------------
\* C14 (as claimed): no step ends the process with exit code 0 while a
\* postTweet call of a record is pending, or after one of its uploads gave an
\* id, that is before the record's ledger mark.
C14_ShutdownOnlyAtBoundary ==
  [][(pc' = "exited" /\ exitCode' = 0) =>
       ~(pc = "post" \/ (pc = "upload" /\ mediaIds # <<>>))]_vars

\* ----------------------------------------------------------------------
\* C15: as long as every ledger write succeeded, a fresh instance that loads
\* the cache file answers isProcessed and isFailed for every id as the running
\* instance does (outside a write of the file that is under way).
C15_LedgerRoundTrip ==
  (Running /\ ~saveFailed /\ pc # "saving") =>
    \A id \in Ids :
      LET fresh == load(disk)
      IN  /\ isProcessedIn(fresh.processed, fresh.failed, toString(id)) = isProcessed(toString(id))
          /\ setHas(fresh.failed, parseInt(toString(id))) = isFailed(toString(id))

\* a restarted daemon has loaded a ledger with a posted and a failed record
C15_Witness ==
  /\ restarts >= 1 /\ pc = "fetch" /\ ~saveFailed /\ ~crashed
  /\ Len(processedIds) = 2 /\ Len(failedIds) = 1

\* ----------------------------------------------------------------------
\* C16: once the ledger write for a record has failed, the record is
\* isProcessed for the rest of the session, the loop is never again at one of
\* its uploads, its post or its ledger call, and the loop can go on.
C16_UnsavedStaysProcessed ==
  unsaved =>
    /\ isProcessed(watchedId)
    /\ ~(HasRecord /\ rawId = watched /\ pc # "marked")
    /\ pc = "marked" => ENABLED Continue

\* after a failed write for a record, a later cycle of the session left the
\* record out and is posting another one
C16_Witness ==
  /\ unsaved /\ watched \in resolvedAtFetch
  /\ pc = "post" /\ rawId # watched

\* ----------------------------------------------------------------------
\* C17 (as claimed): when the ledger write for a record failed, the ledger
\* call reports an error to its caller.
C17_WriteFailureReported ==
  (pc = "marked" /\ rawId = watched /\ unsaved) => saveOutcome(unsaved) = "threw"

\* ----------------------------------------------------------------------
\* C18 (as claimed): over a cache file that is missing, is not JSON, or whose
\* processed or failed field is present and not a list, the ledger starts
\* empty: both sets are empty (so isProcessed is false for every id and both
\* counts are 0).
unparsable(file) ==
  \/ file.state # "ok"
  \/ file.processed.kind \in {"string", "number", "object"}
  \/ file.failed.kind \in {"string", "number", "object"}

C18_UnparsableStartsEmpty ==
  (pc = "fetch" /\ unparsable(disk)) =>
    /\ Len(processedIds) = 0 /\ Len(failedIds) = 0
    /\ \A id \in Ids : ~isProcessed(toString(id))

C20_PreflightFailureIsFatal ==
  /\ [](/\ preflight \in {"unauthenticated", "uninitialized"} =>
            /\ pc = "exited" /\ exitCode = 1
            /\ newMessages = <<>> /\ upResults = <<>> /\ calls = NoCalls
            /\ processedIds = <<>> /\ failedIds = <<>>
        /\ Running => preflight = "ok")
  /\ [][preflight' \in {"unauthenticated", "uninitialized"} =>
         (disk' = disk /\ postCalls' = postCalls /\ okPosts' = okPosts)]_vars

\* initialize answered false while a message was waiting in the source
C20_Witness ==
  /\ preflight = "uninitialized" /\ pc = "exited" /\ exitCode = 1
  /\ Len(db) >= 1

\* ----------------------------------------------------------------------
\* C21 (as claimed): the posted count is the number of records whose outcome
\* is Posted (resolved and not failed) and the failed count the number whose
\* outcome is FailedTerminal, so a record whose post failed is not counted
\* as posted.
outcomeOf(id) ==
  IF isFailed(toString(id)) THEN "FailedTerminal"
  ELSE IF isProcessed(toString(id)) THEN "Posted"
  ELSE "Unresolved"

C21_CountsSeparateOutcomes ==
  Running =>
    /\ getProcessedCount = Cardinality({id \in Ids : outcomeOf(id) = "Posted"})
    /\ getFailedCount = Cardinality({id \in Ids : outcomeOf(id) = "FailedTerminal"})
    /\ (postThrew /\ okPosts = 0 /\ isFailed(watchedId)) =>
         getProcessedCount <= Cardinality(Range(processedIds) \ {watched})

\* ----------------------------------------------------------------------
\* C22: a record that passed validation gets no postTweet call exactly when
\* it had a media path, none of its uploads succeeded and its publish text
\* is empty, and it is then marked processed and not failed; every other
\* record gets exactly one postTweet call, text-only when all its uploads
\* failed.
noUploadSucceeded ==
  /\ Len(processedMessage.mediaPaths) >= 1
  /\ Len(upResults) = Len(processedMessage.mediaPaths)
  /\ \A k \in DOMAIN upResults : ~upResults[k]

C22_PostSkippedIffNothingToPost ==
  (HasRecord /\ validateMessage(processedMessage)) =>
    /\ pc = "upload" => calls.posts = 0
    /\ pc = "post" =>
         /\ calls.posts = 1
         /\ ~(noUploadSucceeded /\ processedMessage.text = <<>>)
         /\ noUploadSucceeded =>
              tweetPayload = [text |-> processedMessage.text, media_ids |-> <<>>]
    /\ (pc \in {"mark", "saving", "marked"} /\ markKind = "skip") =>
         /\ calls.posts = 0
         /\ noUploadSucceeded /\ processedMessage.text = <<>>
         /\ pc # "mark" => (isProcessed(rawMessage.id) /\ ~isFailed(rawMessage.id))
    /\ (pc \in {"mark", "saving", "marked"} /\ markKind # "skip") =>
         /\ calls.posts = 1
         /\ markKind \in {"posted", "failed"}

\* a record with three images and no text had all its uploads fail and was
\* marked without a post
C22_Witness ==
  /\ pc = "marked" /\ markKind = "skip" /\ validateMessage(processedMessage)
  /\ upResults = <<FALSE, FALSE, FALSE>> /\ calls.posts = 0
  /\ isProcessed(rawMessage.id) /\ ~isFailed(rawMessage.id)

\* ----------------------------------------------------------------------
\* C23: when a poll cycle reaches its sleep every record of its batch is
\* resolved in the ledger, whatever failed on the way, and the step after a
\* record's ledger call goes to the next record of the batch whatever the
\* record's outcome was.
C23_BatchResolvedAtCycleEnd ==
  /\ [](/\ pc = "sleep" => \A i \in DOMAIN newMessages : isProcessed(newMessages[i].id)
        /\ HasRecord => \A j \in 1..(idx - 1) : isProcessed(newMessages[j].id))
  /\ [][(pc = "marked" /\ pc' \notin {"marked", "exited"}) =>
         IF idx < Len(newMessages)
         THEN idx' = idx + 1 /\ pc' \in {"upload", "post", "mark"}
         ELSE pc' = "sleep"]_vars

\* a cycle with a batch of two is over: the post of the first record threw,
\* the second record was still processed
C23_Witness ==
  /\ pc = "sleep" /\ Len(newMessages) = 2
  /\ isFailed(newMessages[1].id)
  /\ isProcessed(newMessages[2].id) /\ ~isFailed(newMessages[2].id)

\* ----------------------------------------------------------------------
\* C24: no record is marked failed because of its attachments: while its
\* media loop runs nothing is marked, a record is marked failed only after
\* a postTweet call for it was made and threw, and a record all of whose
\* uploads failed is posted text-only or skipped, and marked processed and
\* not failed unless that post threw.
C24_AttachmentFailuresNotTerminal ==
  /\ [](/\ pc \in {"upload", "post"} => (markKind = "none" /\ ~isFailed(rawMessage.id))
        /\ (HasRecord /\ markKind = "failed") =>
             (calls.posts = 1 /\ (rawId = watched => postThrew))
        /\ isFailed(watchedId) => postThrew
        /\ (HasRecord /\ noUploadSucceeded) =>
             /\ pc = "post" => tweetPayload.media_ids = <<>>
             /\ (pc \in {"mark", "saving", "marked"} /\ rawId = watched /\ ~postThrew) =>
                  markKind \in {"skip", "posted"}
             /\ (pc = "marked" /\ rawId = watched /\ ~postThrew) =>
                  (isProcessed(watchedId) /\ ~isFailed(watchedId)))
  /\ [][(~isFailed(watchedId) /\ isFailed(watchedId)') =>
         (pc = "mark" /\ markKind = "failed" /\ rawId = watched /\ postThrew)]_vars

\* all four uploads of a record with text failed, its text-only post
\* returned and the record is marked processed, not failed
C24_Witness ==
  /\ pc = "marked" /\ rawId = watched
  /\ upResults = <<FALSE, FALSE, FALSE, FALSE>>
  /\ processedMessage.text # <<>> /\ calls.posts = 1 /\ markKind = "posted"
  /\ isProcessed(watchedId) /\ ~isFailed(watchedId)

\* ----------------------------------------------------------------------
\* C25: within a session no step of the loop takes an id out of the ledger:
\* an id for which isProcessed answers true keeps that answer after every
\* later step, and the ids held by the two sets together only grow.
C25_ResolutionMonotonic ==
  [][(Running /\ Running') =>
       /\ \A id \in Ids : isProcessed(toString(id)) => isProcessed(toString(id))'
       /\ (Range(processedIds) \cup Range(failedIds))
            \subseteq (Range(processedIds') \cup Range(failedIds'))]_vars

\* a record resolved in an earlier cycle is still resolved after a later
\* cycle marked another record
C25_Witness ==
  /\ watched \in resolvedAtFetch /\ isProcessed(watchedId)
  /\ pc = "marked" /\ rawId # watched /\ isProcessed(rawMessage.id)

\* ----------------------------------------------------------------------
\* C26: markProcessed and markFailed are idempotent: calling one again with
\* the id it was just called with leaves both sets as they are and, when the
\* writes succeed, the cache file too; and markProcessed on an id that was
\* marked failed leaves it processed and not failed, in memory and in the
\* file.
C26_MarkIdempotent ==
  /\ []((pc = "ledger" /\ markKind # "none") =>
          LET again == markInMemory(markKind, processedIds, failedIds, rawMessage.id)
          IN  /\ again.processed = processedIds /\ again.failed = failedIds
              /\ ~saveFailed => disk = fileContent(again.processed, again.failed)
              /\ markKind = "posted" =>
                   /\ setHas(processedIds, rawId) /\ ~isFailed(rawMessage.id)
                   /\ ~saveFailed =>
                        (onDisk(rawId) /\ rawId \notin Range(load(disk).failed)))
  /\ [][(pc = "ledger" /\ calls'.marks = calls.marks + 1
           /\ markKind' = markKind /\ newMessages' = newMessages) =>
         /\ processedIds' = processedIds /\ failedIds' = failedIds
         /\ ~saveFailed' => disk' = disk]_vars

\* markFailed, then markProcessed twice, for the same id: it is processed
\* and not failed, once, in memory and in the file
C26_Witness ==
  /\ pc = "ledger" /\ calls.marks = 3 /\ markKind = "posted" /\ ~saveFailed
  /\ postThrew /\ rawId = watched
  /\ processedIds = <<watched>> /\ failedIds = <<>>
  /\ disk = fileContent(<<watched>>, <<>>)

\* ----------------------------------------------------------------------
\* C27: the loop does one thing at a time: postTweet is called for a record
\* only after the turn of its last media path has ended, a record is entered
\* only from the returned ledger call of the record before it, the sleep is
\* reached only from an empty batch or the returned ledger call of the last
\* record, and a fetch starts only from the sleep (or the start) with every
\* record of the batch before it marked.
C27_StrictlySequential ==
  /\ [](pc = "post" =>
          (mi = Len(processedMessage.mediaPaths) /\ Len(upResults) = mi))
  /\ [][/\ (HasRecord' /\ idx' # idx) =>
            IF idx' = 1
            THEN pc = "fetch"
            ELSE pc = "marked" /\ idx' = idx + 1 /\ calls.marks = 1
                 /\ isProcessed(rawMessage.id)
        /\ (pc' = "sleep" /\ pc # "sleep") =>
             \/ pc = "fetch" /\ newMessages' = <<>>
             \/ pc = "marked" /\ idx = Len(newMessages) /\ isProcessed(rawMessage.id)
        /\ (pc' = "fetch" /\ pc # "fetch") =>
             /\ pc \in {"start", "sleep"}
             /\ \A i \in DOMAIN newMessages : isProcessed(newMessages[i].id)]_vars

\* the second record of a batch is being posted after its four media turns,
\* the first record marked
C27_Witness ==
  /\ pc = "post" /\ idx = 2 /\ Len(upResults) = 4 /\ mi = 4
  /\ isProcessed(newMessages[1].id)

\* ----------------------------------------------------------------------
\* C28: the media ids of a record's postTweet call are the ids uploadMedia
\* returned for that record's own media paths in its own media loop: each
\* of them once, none of another record, none of a turn that failed.
C28_MediaIdsOfOwnRecord ==
  /\ pc \in {"upload", "post"} =>
       \A k \in DOMAIN mediaIds :
         /\ mediaIds[k][1] = rawId
         /\ mediaIds[k][2] \in DOMAIN upResults /\ upResults[mediaIds[k][2]]
  /\ pc = "post" =>
       /\ tweetPayload.media_ids = mediaIds
       /\ Range(mediaIds) = {<<rawId, k>> : k \in {j \in DOMAIN upResults : upResults[j]}}
       /\ Len(mediaIds) = Cardinality(Range(mediaIds))

\* the second record of a batch is posted with three ids, all its own; the
\* record before it had images too
C28_Witness ==
  /\ pc = "post" /\ idx = 2
  /\ Len(tweetPayload.media_ids) = 3
  /\ imagePaths(newMessages[1].attachments) # <<>>
  /\ \A k \in DOMAIN tweetPayload.media_ids : tweetPayload.media_ids[k][1] = rawId

\* ----------------------------------------------------------------------
\* C29: the text of the payload of a postTweet call is one whitespace
\* character when the publish text is empty (the record then has an uploaded
\* media id), and the publish text itself when that is not empty.
C29_EmptyTextSentAsSpace ==
  pc = "post" =>
    IF processedMessage.text = <<>>
    THEN /\ Len(tweetPayload.media_ids) >= 1
         /\ Len(tweetPayload.text) = 1 /\ trim(tweetPayload.text) = <<>>
    ELSE tweetPayload.text = processedMessage.text

\* a record without text and with an uploaded image is being posted
C29_Witness ==
  /\ pc = "post" /\ processedMessage.text = <<>>
  /\ Len(tweetPayload.media_ids) >= 1 /\ tweetPayload.text = <<WS>>

\* ----------------------------------------------------------------------
\* C30: processImage on a path that does not exist after ~ expansion throws
\* "not found" without calling the conversion and without writing; on an
\* existing path whose extension is .heic or .heif in any letter case it
\* returns, unless the conversion throws its own error, the file in the
\* staging directory named by the input's base name with .jpg for the
\* extension; on any other existing path it returns the expanded path,
\* converts nothing and writes nothing.
heicExtensions == {".heic", ".HEIC", ".heif", ".Heif"}

endsInHeic(path) ==
  /\ Len(path) >= 2
  /\ path[Len(path)] \in heicExtensions
  /\ path[Len(path) - 1] # "/"

expanded(path) == IF Head(path) = "~" THEN HOME \o Tail(path) ELSE path

C30_ProcessImageStages ==
  pc = "processed" =>
    LET r == imageCall.result
        p == imageCall.input
    IN  /\ expanded(p) \notin imageCall.files =>
             /\ r.kind = "threw" /\ r.error = "Image file not found"
             /\ r.error # "HEIC conversion failed"
             /\ ~r.attempted /\ r.written = {}
        /\ (expanded(p) \in imageCall.files /\ endsInHeic(p)) =>
             /\ r.attempted
             /\ r.kind = "threw" => (r.error = "HEIC conversion failed" /\ ~imageCall.converts)
             /\ imageCall.converts => r.kind = "ok"
             /\ r.kind = "ok" =>
                  /\ r.path = TEMP_DIR \o <<"/", p[Len(p) - 1], ".jpg">>
                  /\ r.written = {r.path}
        /\ (expanded(p) \in imageCall.files /\ ~endsInHeic(p)) =>
             /\ r.kind = "ok" /\ r.path = expanded(p)
             /\ ~r.attempted /\ r.written = {}

\* ~/d/IMG.HEIC exists and was converted to <staging>/IMG.jpg
C30_Witness ==
  /\ pc = "processed"
  /\ imageCall.input = <<"~", "/", "d", "/", "IMG", ".HEIC">>
  /\ imageCall.files = {<<"/", "Users", "/", "me", "/", "d", "/", "IMG", ".HEIC">>}
  /\ imageCall.result.kind = "ok"
  /\ imageCall.result.path = <<"/", "app", "/", ".temp-images", "/", "IMG", ".jpg">>

\* ----------------------------------------------------------------------
\* C31 (as claimed): the sleep that follows a cycle whose source query threw
\* is twice the polling interval, the sleep that follows a cycle whose query
\* answered is the interval itself.
C31_SleepDoubledAfterFetchFailure ==
  pc \in {"sleep", "backoff"} =>
    sleepIntervals(pc) = (IF fetchErrors >= 1 THEN 2 ELSE 1)

C33_SaveWritesWholeLedger ==
  /\ (pc = "marked" /\ disk.state = "ok") =>
        LET file == load(disk)
        IN  rawId \in Range(file.processed) =>
              /\ file.processed = processedIds
              /\ file.failed = failedIds
              /\ unsaved => watched \in Range(file.processed)
  /\ (pc = "fetch" /\ disk.state = "ok") =>
        \A id \in Range(load(disk).processed) : isProcessed(toString(id))

\* the write for the watched record failed, the write for the next record
\* succeeded, and the file holds both
C33_Witness ==
  /\ unsaved /\ pc = "marked" /\ rawId # watched
  /\ disk = fileContent(processedIds, failedIds)
  /\ onDisk(watched) /\ onDisk(rawId)

\* ----------------------------------------------------------------------
\* C34: a cycle whose fetch returns and brings no unresolved record (the query
\* failed inside getNewMessages, or every row it returned was resolved) goes
\* to the sleep with both ledger sets and the cache file as they were, no
\* uploadMedia or postTweet call made or pending, and consecutiveErrors as it
\* was.
C34_EmptyCycleChangesNothing ==
  [][(/\ pc = "fetch" /\ pc' \in {"sleep", "mark", "upload", "post"}
      /\ \/ fetchErrors' >= 1
         \/ \A r \in Range(queryMessages(db)) : isProcessed(toString(r.ROWID))) =>
        /\ pc' = "sleep" /\ newMessages' = <<>>
        /\ processedIds' = processedIds /\ failedIds' = failedIds
        /\ disk' = disk
        /\ calls' = NoCalls /\ upResults' = <<>> /\ tweetPayload' = NoPayload
        /\ postCalls' = postCalls /\ okPosts' = okPosts
        /\ consecutiveErrors' = consecutiveErrors]_vars

\* the query answered with resolved rows only, after an earlier cycle had
\* raised consecutiveErrors
C34_Witness ==
  /\ pc = "sleep" /\ newMessages = <<>> /\ fetchErrors = 0
  /\ resolvedAtFetch # {} /\ consecutiveErrors >= 1

====
